---- MODULE Spec2Model ----
(***************************************************************************)
(* A model of the content pool behind the swipe deck of exploree:          *)
(* src/hooks/useInfiniteShuffledSpots.ts (the Seen-Set, the sliding-window *)
(* Pool, the shuffle-and-batch scheduler and its busy flag).               *)
(*                                                                         *)
(* An item (Spot) is modelled by its identifier.  React applies queued     *)
(* state updates in the order they were queued, and the hook reads         *)
(* displayedSpots only after a render, so setDisplayedSpots is modelled    *)
(* as taking effect in the handler that calls it.                          *)
(***************************************************************************)
EXTENDS Integers, Sequences, FiniteSets, TLC

\* ------------------------------------------------------------------ bounds
NumIds == 2          \* item identifiers are 1..NumIds
MaxSpotsLen == 2     \* longest `spots` prop delivered in one render
MaxBatchSize == 2    \* batchSize is drawn from 1..MaxBatchSize
MaxPoolCap == 2      \* maxPoolSize is drawn from 0..MaxPoolCap
MaxDisplayed == 4    \* batches are produced while the list stays this short
MaxIngestLen == 4    \* longest `spots` prop under SpecInitialLoad
MaxIngestCap == 4    \* maxPoolSize is in 0..MaxIngestCap under SpecInitialLoad

MaxRows == 3         \* spot rows of the explore listing are 1..MaxRows
MaxTime == 2         \* createdAt values are 1..MaxTime
MaxLimitQuery == 3   \* the limit query parameter is at most this
MaxNegLimit == 2     \* and at least -MaxNegLimit
NumSaveRequests == 3 \* POST /api/save requests in flight together
NumPlaceRequests == 3 \* POST /api/places requests in flight together

Ids == 1..NumIds

VARIABLES
  batchSize,         \* hook parameter (a positive number, default 20)
  maxPoolSize,       \* hook parameter (default 200)
  poolRef,           \* poolRef.current
  seenIdsRef,        \* seenIdsRef.current
  displayedSpots,    \* the displayedSpots state
  isReshufflingRef,  \* isReshufflingRef.current, the busy flag
  initializedRef,    \* initializedRef.current
  rafPending,        \* requestAnimationFrame callbacks not yet run
  clearTimers,       \* 50 ms timers (clearing the busy flag) not yet fired
  preloadTimer,      \* the proactive effect's 100 ms timer is armed
  lastOp,            \* the handler that ran last
  rejected,          \* ids the last step's ingestion filtered out as seen
                     \* that no pool item carried (evicted before)
  absorbed,          \* the argument of the last step's maintainPoolSize call
  nextBatch,         \* the candidate batch the last animation frame sliced
  fetchCalls,        \* onFetchMore invocations made by the last handler
  index,             \* SwipeDeck's index state: the position of the top card
  effectsDue,        \* a render has committed and its effects have not run
  mutationPending,   \* the page's save or skip request has not settled
  spotTable,         \* explore: createdAt of each matching spot row, by id
  limitQuery,        \* explore: req.query.limit (0: absent or not a number)
  cursor,            \* explore: the client's next pageParam (NoCursor: none)
  received,          \* explore: the items of the pages fetched so far
  exploreState,      \* explore: "start", "more" (hasNextPage) or "end"
  request,           \* middleware: the request last handled
  response,          \* middleware: what it answered
  saveReqs,          \* /api/save: each request's position, input and answer
  saveRows,          \* /api/save: rows of Save with the user's (userId, spotId)
  placeReqs,         \* /api/places: each request's position, slug and answer
  spotSlugs,         \* /api/places: the slug of every stored spot, in order
  pins,              \* explore page: the pins state
  pageCursor,        \* explore page: the cursor state (NoCursor: null)
  pageQuery,         \* explore page: the query state
  activeTag,         \* explore page: the activeTag state
  isLoading,         \* explore page: the isLoading state
  pageHasMore,       \* explore page: the hasMore state
  rendered,          \* explore page: the state the last render saw
  observer,          \* explore page: the render whose loadMore the
                     \* registered IntersectionObserver calls
  inFlight,          \* explore page: the requests fetch has not answered
  evictedIds,        \* history: the ids of the items the sliding window has
                     \* removed from the pool (recorded under SpecEviction)
  mountedCards,      \* SwipeDeck: the positions whose SwipeCard is mounted
                     \* (the top card and the cards still exiting)
  commits,           \* SwipeDeck: the calls of commit so far, in order
  visReqs,           \* visibility: each request's position, input and answer
  collections        \* visibility: userId and isPublic of each collection

hookVars == <<batchSize, maxPoolSize, poolRef, seenIdsRef,
              displayedSpots, isReshufflingRef, initializedRef, rafPending,
              clearTimers, preloadTimer, lastOp, rejected,
              absorbed, nextBatch, fetchCalls>>

deckVars == <<index, effectsDue, mutationPending>>

exploreVars == <<spotTable, limitQuery, cursor, received, exploreState>>

middlewareVars == <<request, response>>

saveVars == <<saveReqs, saveRows>>

placesVars == <<placeReqs, spotSlugs>>

swipeVars == <<mountedCards, commits>>

visibilityVars == <<visReqs, collections>>

pageVars == <<pins, pageCursor, pageQuery, activeTag, isLoading, pageHasMore,
              rendered, observer, inFlight>>

\* The state of the request handlers and of their clients.
serverVars ==
  <<exploreVars, middlewareVars, saveVars, placesVars, pageVars,
    visibilityVars>>

\* What is recorded of the session's past.
historyVars == <<evictedIds>>

\* What the hook's own steps leave alone.
otherVars == <<deckVars, serverVars, historyVars, swipeVars>>

vars == <<hookVars, otherVars>>

params == <<batchSize, maxPoolSize>>
refs == <<poolRef, seenIdsRef>>

\* ----------------------------------------------------------------- helpers
Min(a, b) == IF a < b THEN a ELSE b

Max(a, b) == IF a > b THEN a ELSE b

\* Array.prototype.slice(from) with 0 <= from: drops the first `from` items.
SliceFrom(array, from) == SubSeq(array, from + 1, Len(array))

\* Array.prototype.slice(0, end) with 0 <= end.
SliceTo(array, end) == SubSeq(array, 1, Min(end, Len(array)))

\* Array.prototype.slice(-n) with n >= 1: the last n items (all, if fewer).
SliceLast(array, n) == SubSeq(array, Max(Len(array) - n, 0) + 1, Len(array))

\* Sequences over S of length at most n.
SeqUpTo(S, n) == UNION {[1..k -> S] : k \in 0..n}

Range(s) == {s[i] : i \in 1..Len(s)}

\* [a[i], a[j]] = [a[j], a[i]]
Swap(array, i, j) ==
  [k \in 1..Len(array) |->
     IF k = i THEN array[j] ELSE IF k = j THEN array[i] ELSE array[k]]

\* The loop of shuffleArray from index i down (1-based): every j in 1..i is a
\* value Math.floor(Math.random() * (i + 1)) can take.
RECURSIVE FisherYates(_, _)
FisherYates(shuffled, i) ==
  IF i <= 1 THEN {shuffled}
  ELSE UNION {FisherYates(Swap(shuffled, i, j), i - 1) : j \in 1..i}

\* shuffleArray(array): the arrays it can return.
ShuffleArray(array) == FisherYates(array, Len(array))

\* Mutant: the shuffle is done in place, on the array itself.
ArrayAfterShuffle_InPlace(array, shuffled) == shuffled

\* shuffleArray works on the copy [...array]: its argument after the call.
ArrayAfterShuffle(array, shuffled) == array

\* ------------------------------------------------------ the sliding window
\* Mutant: the window keeps one item too many.
MaintainPoolSize_OffByOne(pool, seenIds, newSpots) ==
  LET appended == pool \o newSpots
      seen == seenIds \cup Range(newSpots)
  IN  IF Len(appended) > maxPoolSize + 1
        THEN [pool |-> SliceFrom(appended, Len(appended) - maxPoolSize - 1),
              seen |-> seen]
        ELSE [pool |-> appended, seen |-> seen]

\* Mutant: the window drops the newest items, slice(0, maxPoolSize).
MaintainPoolSize_DropNewest(pool, seenIds, newSpots) ==
  LET appended == pool \o newSpots
      seen == seenIds \cup Range(newSpots)
  IN  IF Len(appended) > maxPoolSize
        THEN [pool |-> SliceTo(appended, maxPoolSize), seen |-> seen]
        ELSE [pool |-> appended, seen |-> seen]

\* maintainPoolSize(newSpots): poolRef.current and seenIdsRef.current after it.
MaintainPoolSize(pool, seenIds, newSpots) ==
  LET appended == pool \o newSpots
      seen == seenIds \cup Range(newSpots)
  IN  IF Len(appended) > maxPoolSize
        THEN [pool |-> SliceFrom(appended, Len(appended) - maxPoolSize),
              seen |-> seen]
        ELSE [pool |-> appended, seen |-> seen]

\* Mutant: the Seen-Set filter is left out.
FilterUnseen_None(list, seenIds) == list

\* spots.filter((s) => !seenIdsRef.current.has(s.id))
FilterUnseen(list, seenIds) == SelectSeq(list, LAMBDA s : s \notin seenIds)

\* Mutant: the fallback to the whole list is taken on every load.
SpotsToAbsorb_EveryLoad(list, seenIds, isInitialLoad) ==
  LET newSpots == FilterUnseen(list, seenIds)
  IN  IF Len(newSpots) > 0 THEN newSpots
      ELSE IF Len(list) > 0 THEN list
      ELSE <<>>

\* What the ingestion effect hands to maintainPoolSize (<<>>: no call).
SpotsToAbsorb(list, seenIds, isInitialLoad) ==
  LET newSpots == FilterUnseen(list, seenIds)
  IN  IF Len(newSpots) > 0 THEN newSpots
      ELSE IF isInitialLoad /\ Len(list) > 0 THEN list
      ELSE <<>>

\* Mutant: the initial batch uses the multiplier of the later batches.
InitialBatch_Double(shuffled) == SliceTo(shuffled, Min(batchSize * 2, Len(shuffled)))

\* shuffled.slice(0, Math.min(batchSize * 3, shuffled.length))
InitialBatch(shuffled) == SliceTo(shuffled, Min(batchSize * 3, Len(shuffled)))

\* The ingestion effect, run after a render with the prop `spots` = list.
Ingest(list) ==
  /\ lastOp' = "ingest"
  /\ rejected' = (Range(list) \cap seenIdsRef) \ Range(poolRef)
  /\ nextBatch' = <<>>
  /\ fetchCalls' = 0
  /\ UNCHANGED <<params, isReshufflingRef, rafPending, clearTimers, preloadTimer>>
  /\ IF Len(list) = 0
       THEN /\ absorbed' = <<>>
            /\ UNCHANGED <<refs, displayedSpots, initializedRef>>
       ELSE LET isInitialLoad == ~initializedRef
                toAbsorb == SpotsToAbsorb(list, seenIdsRef, isInitialLoad)
                after == IF Len(toAbsorb) > 0
                           THEN MaintainPoolSize(poolRef, seenIdsRef, toAbsorb)
                           ELSE [pool |-> poolRef, seen |-> seenIdsRef]
            IN  /\ absorbed' = toAbsorb
                /\ seenIdsRef' = after.seen
                /\ IF isInitialLoad /\ Len(after.pool) > 0
                     THEN \E shuffled \in ShuffleArray(after.pool) :
                            /\ poolRef' = ArrayAfterShuffle(after.pool, shuffled)
                            /\ displayedSpots' = InitialBatch(shuffled)
                            /\ initializedRef' = TRUE
                     ELSE /\ poolRef' = after.pool
                          /\ UNCHANGED <<displayedSpots, initializedRef>>

\* --------------------------------------------------------- the scheduler
\* Mutant: onFetchMore is called whatever the pool holds.
FetchMoreIf_Always(cond) == 1

\* if (cond && onFetchMore) onFetchMore(): the calls made.  The deck supplies
\* the callback (src/pages/index.tsx:218), so onFetchMore is defined.
FetchMoreIf(cond) == IF cond THEN 1 ELSE 0

\* Mutant: the busy flag is tested before the low-water check.
PreloadNextBatch_BusyFirst ==
  IF isReshufflingRef
    THEN fetchCalls' = 0 /\ UNCHANGED <<isReshufflingRef, rafPending>>
    ELSE /\ fetchCalls' = FetchMoreIf(Len(poolRef) < batchSize)
         /\ IF Len(poolRef) < batchSize /\ Len(poolRef) = 0
              THEN UNCHANGED <<isReshufflingRef, rafPending>>
              ELSE /\ isReshufflingRef' = TRUE
                   /\ rafPending' = rafPending + 1

\* Mutant: no early return on an empty pool.
PreloadNextBatch_NoEmptyReturn ==
  /\ fetchCalls' = FetchMoreIf(Len(poolRef) < batchSize)
  /\ IF isReshufflingRef
       THEN UNCHANGED <<isReshufflingRef, rafPending>>
       ELSE /\ isReshufflingRef' = TRUE
            /\ rafPending' = rafPending + 1

\* Mutant: the busy flag is not tested.
PreloadNextBatch_NoGuard ==
  /\ fetchCalls' = FetchMoreIf(Len(poolRef) < batchSize)
  /\ IF Len(poolRef) < batchSize /\ Len(poolRef) = 0
       THEN UNCHANGED <<isReshufflingRef, rafPending>>
       ELSE /\ isReshufflingRef' = TRUE
            /\ rafPending' = rafPending + 1

\* preloadNextBatch up to its requestAnimationFrame call.
PreloadNextBatch ==
  /\ fetchCalls' = FetchMoreIf(Len(poolRef) < batchSize)
  /\ IF Len(poolRef) < batchSize /\ Len(poolRef) = 0
       THEN UNCHANGED <<isReshufflingRef, rafPending>>
       ELSE IF isReshufflingRef
         THEN UNCHANGED <<isReshufflingRef, rafPending>>
         ELSE /\ isReshufflingRef' = TRUE
              /\ rafPending' = rafPending + 1

\* getNextBatch(), called by the deck's onEmpty.
GetNextBatch ==
  /\ lastOp' = "getNextBatch"
  /\ PreloadNextBatch
  /\ rejected' = {} /\ absorbed' = <<>> /\ nextBatch' = <<>>
  /\ UNCHANGED <<params, refs, displayedSpots, initializedRef, clearTimers,
                 preloadTimer>>

\* shuffled.slice(0, Math.min(batchSize * 2, shuffled.length))
CandidateBatch(shuffled) == SliceTo(shuffled, Min(batchSize * 2, Len(shuffled)))

\* Mutant: the updater returns the batch alone.
AppendBatch_Replace(prev, batch) ==
  LET recentIds == Range(SliceLast(prev, batchSize))
      filteredBatch == SelectSeq(batch, LAMBDA s : s \notin recentIds)
  IN  IF Len(filteredBatch) > 0 THEN filteredBatch ELSE batch

\* Mutant: no fallback to the unfiltered batch.
AppendBatch_NoFallback(prev, batch) ==
  LET recentIds == Range(SliceLast(prev, batchSize))
  IN  prev \o SelectSeq(batch, LAMBDA s : s \notin recentIds)

\* Mutant: the whole displayed list counts as recent, prev.map without slice.
AppendBatch_WholeHistory(prev, batch) ==
  LET recentIds == Range(prev)
      filteredBatch == SelectSeq(batch, LAMBDA s : s \notin recentIds)
      spotsToAdd == IF Len(filteredBatch) > 0 THEN filteredBatch ELSE batch
  IN  prev \o spotsToAdd

\* The setDisplayedSpots updater: the next displayedSpots from prev.
AppendBatch(prev, batch) ==
  LET recentIds == Range(SliceLast(prev, batchSize))
      filteredBatch == SelectSeq(batch, LAMBDA s : s \notin recentIds)
      spotsToAdd == IF Len(filteredBatch) > 0 THEN filteredBatch ELSE batch
  IN  prev \o spotsToAdd

\* Mutant: the second check uses the threshold of the first, batchSize.
AnimationFrame_SingleThreshold ==
  /\ rafPending > 0
  /\ lastOp' = "animationFrame"
  /\ \E shuffled \in ShuffleArray(poolRef) :
       /\ poolRef' = ArrayAfterShuffle(poolRef, shuffled)
       /\ nextBatch' = CandidateBatch(shuffled)
       /\ displayedSpots' = AppendBatch(displayedSpots, nextBatch')
  /\ Len(displayedSpots') <= MaxDisplayed
  /\ fetchCalls' = FetchMoreIf(Len(poolRef) < batchSize)
  /\ rafPending' = rafPending - 1
  /\ clearTimers' = clearTimers + 1
  /\ rejected' = {} /\ absorbed' = <<>>
  /\ UNCHANGED <<params, seenIdsRef, isReshufflingRef, initializedRef,
                 preloadTimer>>

\* The requestAnimationFrame callback of preloadNextBatch.
AnimationFrame ==
  /\ rafPending > 0
  /\ lastOp' = "animationFrame"
  /\ \E shuffled \in ShuffleArray(poolRef) :
       /\ poolRef' = ArrayAfterShuffle(poolRef, shuffled)
       /\ nextBatch' = CandidateBatch(shuffled)
       /\ displayedSpots' = AppendBatch(displayedSpots, nextBatch')
  /\ Len(displayedSpots') <= MaxDisplayed
  /\ fetchCalls' = FetchMoreIf(Len(poolRef) < batchSize * 2)
  /\ rafPending' = rafPending - 1
  /\ clearTimers' = clearTimers + 1
  /\ rejected' = {} /\ absorbed' = <<>>
  /\ UNCHANGED <<params, seenIdsRef, isReshufflingRef, initializedRef,
                 preloadTimer>>

\* Mutant: the timer's callback leaves the flag as it is.
ClearBusy_KeepsFlag ==
  /\ clearTimers > 0
  /\ lastOp' = "clearBusy"
  /\ isReshufflingRef' = isReshufflingRef
  /\ clearTimers' = clearTimers - 1
  /\ fetchCalls' = 0
  /\ rejected' = {} /\ absorbed' = <<>> /\ nextBatch' = <<>>
  /\ UNCHANGED <<params, refs, displayedSpots, initializedRef, rafPending,
                 preloadTimer>>

\* The 50 ms timer set by the animation frame.
ClearBusy ==
  /\ clearTimers > 0
  /\ lastOp' = "clearBusy"
  /\ isReshufflingRef' = FALSE
  /\ clearTimers' = clearTimers - 1
  /\ fetchCalls' = 0
  /\ rejected' = {} /\ absorbed' = <<>> /\ nextBatch' = <<>>
  /\ UNCHANGED <<params, refs, displayedSpots, initializedRef, rafPending,
                 preloadTimer>>

\* The proactive effect's condition.
ShouldPreload ==
  /\ Len(displayedSpots) > 0
  /\ Len(displayedSpots) < batchSize * 2
  /\ Len(poolRef) > 0
  /\ ~isReshufflingRef

\* The proactive effect, run after a render: the cleanup of its last run
\* clears the timer, and the timer is armed anew when the condition holds.
PreloadEffect ==
  /\ lastOp' = "preloadEffect"
  /\ preloadTimer' = ShouldPreload
  /\ fetchCalls' = 0
  /\ rejected' = {} /\ absorbed' = <<>> /\ nextBatch' = <<>>
  /\ UNCHANGED <<params, refs, displayedSpots, isReshufflingRef,
                 initializedRef, rafPending, clearTimers>>

\* The proactive effect's 100 ms timer.
PreloadTimer ==
  /\ preloadTimer
  /\ lastOp' = "preloadTimer"
  /\ preloadTimer' = FALSE
  /\ IF ~isReshufflingRef
       THEN PreloadNextBatch
       ELSE fetchCalls' = 0 /\ UNCHANGED <<isReshufflingRef, rafPending>>
  /\ rejected' = {} /\ absorbed' = <<>> /\ nextBatch' = <<>>
  /\ UNCHANGED <<params, refs, displayedSpots, initializedRef, clearTimers>>

\* ------------------------------------------------------- the specification
\* The deck before its first render.
DeckInit ==
  /\ index = 0
  /\ effectsDue = FALSE
  /\ mutationPending = FALSE
  /\ mountedCards = {}
  /\ commits = <<>>

\* No cursor: the first page's pageParam, and nextCursor: null.
NoCursor == 0

\* The explore listing with no request made and no row stored.
ExploreIdle ==
  /\ spotTable = <<>>
  /\ limitQuery = 0
  /\ cursor = NoCursor
  /\ received = <<>>
  /\ exploreState = "start"

\* req.nextauth.token: null, or a token whose username is a string or not.
\* Strings are sequences of characters.
NoToken == [present |-> FALSE, isString |-> FALSE, username |-> <<>>]

\* The middleware with no request handled.
NoRequest == [pathname |-> <<>>, search |-> <<>>, token |-> NoToken]

NoResponse == [kind |-> "none", pathname |-> <<>>, next |-> <<>>]

MiddlewareIdle == request = NoRequest /\ response = NoResponse

\* /api/save and /api/places with no request made and no row stored.
SaveIdle == saveReqs = <<>> /\ saveRows = 0

PlacesIdle == placeReqs = <<>> /\ spotSlugs = <<>>

\* Strings are sequences of characters.
TagAll == <<"a", "l", "l">>

\* What a render of the explore page reads of its state.
Unmounted ==
  [mounted |-> FALSE, cursor |-> NoCursor, query |-> <<>>,
   activeTag |-> TagAll, isLoading |-> FALSE, hasMore |-> TRUE]

\* The explore page before its first render: the useState initial values.
PageIdle ==
  /\ pins = <<>>
  /\ pageCursor = NoCursor
  /\ pageQuery = <<>>
  /\ activeTag = TagAll
  /\ isLoading = FALSE
  /\ pageHasMore = TRUE
  /\ rendered = Unmounted
  /\ observer = Unmounted
  /\ inFlight = <<>>

\* The visibility handler with no request made and no collection stored.
VisibilityIdle == visReqs = <<>> /\ collections = <<>>

\* The request handlers and the pages other than the home page, at rest.
ServersIdle == MiddlewareIdle /\ SaveIdle /\ PlacesIdle /\ PageIdle /\ VisibilityIdle

\* Nothing has been evicted.
NoHistory == evictedIds = {}

\* What is not the hook's, before the first render.
OthersInit ==
  DeckInit /\ ExploreIdle /\ ServersIdle /\ NoHistory

Init ==
  /\ batchSize \in 1..MaxBatchSize
  /\ maxPoolSize \in 0..MaxPoolCap
  /\ poolRef = <<>>
  /\ seenIdsRef = {}
  /\ displayedSpots = <<>>
  /\ isReshufflingRef = FALSE
  /\ initializedRef = FALSE
  /\ rafPending = 0
  /\ clearTimers = 0
  /\ preloadTimer = FALSE
  /\ lastOp = "mount"
  /\ rejected = {}
  /\ absorbed = <<>>
  /\ nextBatch = <<>>
  /\ fetchCalls = 0
  /\ OthersInit

\* The lists a render can pass as the `spots` prop.
SpotLists == SeqUpTo(Ids, MaxSpotsLen)

\* A render of the deck with a new `spots` prop: the ingestion effect runs.
Render == \E list \in SpotLists : Ingest(list)

\* The hook on its own: its callers and its callbacks run in any order.
Next ==
  \/ Render /\ UNCHANGED otherVars
  \/ GetNextBatch /\ UNCHANGED otherVars
  \/ AnimationFrame /\ UNCHANGED otherVars
  \/ ClearBusy /\ UNCHANGED otherVars
  \/ PreloadEffect /\ UNCHANGED otherVars
  \/ PreloadTimer /\ UNCHANGED otherVars

Spec == Init /\ [][Next]_vars

\* A session up to its initial load, over longer lists and larger windows.
InitIngest ==
  /\ batchSize \in 1..MaxBatchSize
  /\ maxPoolSize \in 0..MaxIngestCap
  /\ poolRef = <<>>
  /\ seenIdsRef = {}
  /\ displayedSpots = <<>>
  /\ isReshufflingRef = FALSE
  /\ initializedRef = FALSE
  /\ rafPending = 0
  /\ clearTimers = 0
  /\ preloadTimer = FALSE
  /\ lastOp = "mount"
  /\ rejected = {}
  /\ absorbed = <<>>
  /\ nextBatch = <<>>
  /\ fetchCalls = 0
  /\ OthersInit

IngestLists == SeqUpTo(Ids, MaxIngestLen)

\* The renders of a session that has not produced its initial batch yet.
FirstRenders ==
  /\ ~initializedRef
  /\ \E list \in IngestLists : Ingest(list)
  /\ UNCHANGED otherVars

SpecInitialLoad == InitIngest /\ [][FirstRenders]_vars

\* The displayed list leaves room for the largest batch the pool can yield.
RoomForBatch ==
  Len(displayedSpots) + Min(batchSize * 2, maxPoolSize) <= MaxDisplayed

\* The session under fair scheduling: the browser runs every requested
\* animation frame and fires every 50 ms timer.  Productions are requested
\* while the displayed list leaves room for their batch, so that no frame
\* waits on the bound of the displayed list.
NextFair ==
  \/ Render /\ UNCHANGED otherVars
  \/ RoomForBatch /\ GetNextBatch /\ UNCHANGED otherVars
  \/ AnimationFrame /\ UNCHANGED otherVars
  \/ ClearBusy /\ UNCHANGED otherVars
  \/ PreloadEffect /\ UNCHANGED otherVars
  \/ RoomForBatch /\ PreloadTimer /\ UNCHANGED otherVars

SpecFair ==
  /\ Init
  /\ [][NextFair]_vars
  /\ WF_vars(AnimationFrame /\ UNCHANGED otherVars)
  /\ WF_vars(ClearBusy /\ UNCHANGED otherVars)

\* The deliveries of a session alone: the renders with their `spots` props,
\* which are the only steps that write the Pool and the Seen-Set.
Deliveries == Render /\ UNCHANGED otherVars

SpecDelivery == Init /\ [][Deliveries]_vars

\* The items maintainPoolSize(newSpots) removes from the pool: the first
\* toRemove items of the pool with newSpots appended.
EvictedBy(pool, newSpots) ==
  LET appended == pool \o newSpots
  IN  Range(SliceTo(appended, Max(Len(appended) - maxPoolSize, 0)))

\* A render whose evictions are recorded.
RecordedRender ==
  /\ Render
  /\ evictedIds' = evictedIds \cup EvictedBy(poolRef, absorbed')
  /\ UNCHANGED <<deckVars, serverVars, swipeVars>>

\* The session with the evictions of its deliveries recorded.
NextEviction ==
  \/ RecordedRender
  \/ GetNextBatch /\ UNCHANGED otherVars
  \/ AnimationFrame /\ UNCHANGED otherVars
  \/ ClearBusy /\ UNCHANGED otherVars
  \/ PreloadEffect /\ UNCHANGED otherVars
  \/ PreloadTimer /\ UNCHANGED otherVars

SpecEviction == Init /\ [][NextEviction]_vars

\* ------------------------------------------------- the deck on the page
\* InfiniteSwipeDeck as the home page mounts it.  A render's effects run
\* before the next event is handled: effectsDue holds the other steps back.
\* What a step of the deck leaves of the hook.
hookState == <<params, refs, displayedSpots, isReshufflingRef, initializedRef,
               rafPending, clearTimers, preloadTimer>>

\* A render of the page with a `spots` prop: the ingestion effect has run,
\* the effects that call preloadNextBatch are due.
DeckRender ==
  /\ ~effectsDue
  /\ Render
  /\ effectsDue' = TRUE
  /\ UNCHANGED <<index, mutationPending, serverVars,
                 historyVars, swipeVars>>

\* The effects of a render of InfiniteSwipeDeck.  handleEmpty is a new
\* function in every render, so SwipeDeck's onEmpty effect runs, and calls
\* getNextBatch when there is no top card; then the hook's proactive effect
\* runs, its cleanup clearing the timer and its body arming it anew.
\* SwipeDeck is mounted while displayedSpots is not empty.
DeckEffects ==
  /\ effectsDue
  /\ effectsDue' = FALSE
  /\ lastOp' = "deckEffects"
  /\ IF Len(displayedSpots) > 0 /\ index >= Len(displayedSpots)
       THEN PreloadNextBatch
       ELSE fetchCalls' = 0 /\ UNCHANGED <<isReshufflingRef, rafPending>>
  /\ preloadTimer' = (ShouldPreload /\ ~isReshufflingRef')
  /\ rejected' = {} /\ absorbed' = <<>> /\ nextBatch' = <<>>
  /\ UNCHANGED <<params, refs, displayedSpots, initializedRef, clearTimers,
                 index, mutationPending, serverVars,
                 historyVars, swipeVars>>

\* The animation frame: setDisplayedSpots makes InfiniteSwipeDeck render.
DeckFrame ==
  /\ ~effectsDue
  /\ AnimationFrame
  /\ effectsDue' = TRUE
  /\ UNCHANGED <<index, mutationPending, serverVars,
                 historyVars, swipeVars>>

DeckClearBusy == ~effectsDue /\ ClearBusy /\ UNCHANGED otherVars

DeckPreloadTimer == ~effectsDue /\ PreloadTimer /\ UNCHANGED otherVars

\* fling(dir) with a top card: commit advances the index and calls onSave or
\* onSkip, by which the page starts a request (saveMut or skipMut.mutate)
\* and renders.
Commit ==
  /\ ~effectsDue
  /\ index < Len(displayedSpots)
  /\ index' = index + 1
  /\ mutationPending' = TRUE
  /\ effectsDue' = TRUE
  /\ lastOp' = "commit"
  /\ fetchCalls' = 0
  /\ rejected' = {} /\ absorbed' = <<>> /\ nextBatch' = <<>>
  /\ UNCHANGED <<hookState, serverVars,
                 historyVars, swipeVars>>

\* The request of the last save or skip settles: the page renders.
MutationSettled ==
  /\ ~effectsDue
  /\ mutationPending
  /\ mutationPending' = FALSE
  /\ effectsDue' = TRUE
  /\ lastOp' = "mutationSettled"
  /\ fetchCalls' = 0
  /\ rejected' = {} /\ absorbed' = <<>> /\ nextBatch' = <<>>
  /\ UNCHANGED <<hookState, index, serverVars,
                 historyVars, swipeVars>>

NextDeck ==
  \/ DeckRender
  \/ DeckEffects
  \/ DeckFrame
  \/ DeckClearBusy
  \/ DeckPreloadTimer
  \/ Commit
  \/ MutationSettled

\* The browser runs effects, animation frames and timers, and the requests
\* settle; the deliveries and the user's swipes come as they may.  A frame,
\* a timer or a response waits only while effects are due, so that renders
\* coming again and again do not keep it from running: strong fairness.
SpecDeck ==
  /\ Init
  /\ [][NextDeck]_vars
  /\ WF_vars(DeckEffects)
  /\ SF_vars(DeckFrame)
  /\ SF_vars(DeckClearBusy)
  /\ SF_vars(DeckPreloadTimer)
  /\ SF_vars(MutationSettled)

\* ---------------------------------------------------- the explore listing
\* GET /api/explore and the client that follows nextCursor.  A spot row is
\* its id; spotTable maps the ids of the rows that match the filter to their
\* createdAt.
DefaultLimit == 24

LimitCap == 60

\* The state of everything but the explore listing, at rest.
HookIdle ==
  /\ batchSize = 1
  /\ maxPoolSize = 0
  /\ poolRef = <<>>
  /\ seenIdsRef = {}
  /\ displayedSpots = <<>>
  /\ isReshufflingRef = FALSE
  /\ initializedRef = FALSE
  /\ rafPending = 0
  /\ clearTimers = 0
  /\ preloadTimer = FALSE
  /\ lastOp = "mount"
  /\ rejected = {}
  /\ absorbed = <<>>
  /\ nextBatch = <<>>
  /\ fetchCalls = 0
  /\ NoHistory

\* orderBy: [{ createdAt: "desc" }, { id: "desc" }]: row i comes before row j.
Before(table, i, j) ==
  table[i] > table[j] \/ (table[i] = table[j] /\ i > j)

\* The rows with ids in S in that order.
RECURSIVE OrderedRows(_, _)
OrderedRows(table, S) ==
  IF S = {} THEN <<>>
  ELSE LET first == CHOOSE i \in S : \A j \in S \ {i} : Before(table, i, j)
       IN  <<first>> \o OrderedRows(table, S \ {first})

Ordered(table) == OrderedRows(table, DOMAIN table)

\* The index of id in the sequence rows (0: not there).
IndexOf(rows, id) ==
  IF id \in Range(rows) THEN CHOOSE k \in 1..Len(rows) : rows[k] = id ELSE 0

\* prisma.spot.findMany({ where, orderBy, take, cursor: { id }, skip: 1 }):
\* from the cursor row on, that row skipped; a negative take counts back from
\* it; no cursor row, no result.
FindMany(table, take, cursorId) ==
  LET rows == Ordered(table)
      at == IndexOf(rows, cursorId)
  IN  IF cursorId # NoCursor /\ at = 0 THEN <<>>
      ELSE IF take >= 0
        THEN SliceTo(IF cursorId = NoCursor THEN rows ELSE SliceFrom(rows, at),
                     take)
        ELSE SliceLast(IF cursorId = NoCursor THEN rows
                       ELSE SliceTo(rows, at - 1), 0 - take)

\* Math.min(Number(req.query.limit) || 24, 60)
LimitOf(query) == Min(IF query = 0 THEN DefaultLimit ELSE query, LimitCap)

\* Array.prototype.slice(0, end), a negative end counting from the end.
SliceHead(array, end) ==
  IF end >= 0 THEN SliceTo(array, end)
  ELSE SliceTo(array, Max(Len(array) + end, 0))

\* The handler's answer { items, nextCursor } to a request.
ExploreHandler(table, query, cursorId) ==
  LET limit == LimitOf(query)
      takePlusOne == limit + 1
      results == FindMany(table, takePlusOne, cursorId)
      hasMore == Len(results) > limit
      slice == SliceHead(results, limit)
  IN  [items |-> slice,
       nextCursor |-> IF hasMore /\ Len(slice) > 0
                        THEN slice[Len(slice)] ELSE NoCursor]

\* The tables of matching rows and the limits a client can ask for.
SpotTables == UNION {[S -> 1..MaxTime] : S \in SUBSET (1..MaxRows)}

LimitQueries == (0 - MaxNegLimit)..MaxLimitQuery

InitExplore ==
  /\ HookIdle
  /\ DeckInit /\ MiddlewareIdle /\ SaveIdle /\ PlacesIdle /\ PageIdle /\ VisibilityIdle
  /\ spotTable \in SpotTables
  /\ limitQuery \in LimitQueries
  /\ cursor = NoCursor
  /\ received = <<>>
  /\ exploreState = "start"

\* fetchExplorePage(pageParam): the first page, then fetchNextPage while
\* getNextPageParam gives a cursor.
FetchExplorePage ==
  /\ exploreState # "end"
  /\ LET page == ExploreHandler(spotTable, limitQuery, cursor)
     IN  /\ received' = received \o page.items
         /\ cursor' = page.nextCursor
         /\ exploreState' = IF page.nextCursor = NoCursor THEN "end" ELSE "more"
  /\ UNCHANGED <<spotTable, limitQuery, hookVars, deckVars, middlewareVars,
                 saveVars, placesVars, pageVars, historyVars,
    swipeVars, visibilityVars>>

SpecExplore == InitExplore /\ [][FetchExplorePage]_vars

\* ---------------------------------------------------------- the middleware
\* String.prototype.startsWith
StartsWith(str, prefix) ==
  Len(prefix) <= Len(str) /\ SubSeq(str, 1, Len(prefix)) = prefix

\* String.prototype.includes
Includes(str, part) ==
  \E k \in 0..(Len(str) - Len(part)) : SubSeq(str, k + 1, k + Len(part)) = part

\* String.prototype.trim, for the space character.
RECURSIVE TrimStart(_)
TrimStart(str) ==
  IF str # <<>> /\ Head(str) = " " THEN TrimStart(Tail(str)) ELSE str

RECURSIVE TrimEnd(_)
TrimEnd(str) ==
  IF str # <<>> /\ str[Len(str)] = " "
    THEN TrimEnd(SubSeq(str, 1, Len(str) - 1)) ELSE str

Trim(str) == TrimEnd(TrimStart(str))

\* What the matcher's negative lookahead rules out behind the first "/".
ExcludedPrefixes ==
  { <<"a", "p", "i">>, <<"_", "n", "e", "x", "t">>,
    <<"s", "t", "a", "t", "i", "c">> }

ExcludedExtensions ==
  { <<".", "s", "v", "g">>, <<".", "p", "n", "g">>, <<".", "j", "p", "g">>,
    <<".", "j", "p", "e", "g">>, <<".", "g", "i", "f">>,
    <<".", "w", "e", "b", "p">> }

\* favicon.ico, its dot standing for any character.
IsFavicon(rest) ==
  /\ Len(rest) >= 11
  /\ SubSeq(rest, 1, 7) = <<"f", "a", "v", "i", "c", "o", "n">>
  /\ SubSeq(rest, 9, 11) = <<"i", "c", "o">>

\* config.matcher: the middleware runs for these pathnames only.
Matches(pathname) ==
  /\ StartsWith(pathname, <<"/">>)
  /\ LET rest == Tail(pathname)
     IN  /\ \A prefix \in ExcludedPrefixes : ~StartsWith(rest, prefix)
         /\ ~IsFavicon(rest)
         /\ \A ext \in ExcludedExtensions : ~Includes(rest, ext)

PassThrough == [kind |-> "next", pathname |-> <<>>, next |-> <<>>]

\* NextResponse.redirect(url): the url's pathname and its `next` parameter.
Redirect(pathname, next) ==
  [kind |-> "redirect", pathname |-> pathname, next |-> next]

\* The function handed to withAuth.
Middleware(req) ==
  LET token == req.token
      isHome == StartsWith(req.pathname, <<"/">>)
      isOnboarding ==
        StartsWith(req.pathname,
                   <<"/", "o", "n", "b", "o", "a", "r", "d", "i", "n", "g">>)
      hasUsername == token.isString /\ Len(Trim(token.username)) > 0
  IN  IF ~token.present
        THEN IF ~isHome
               THEN Redirect(<<"/", "h", "o", "m", "e">>,
                             req.pathname \o req.search)
               ELSE PassThrough
        ELSE IF ~hasUsername /\ ~isOnboarding
               THEN Redirect(<<"/", "o", "n", "b", "o", "a", "r", "d", "i",
                               "n", "g">>, <<>>)
               ELSE PassThrough

\* The requests: page paths, an api route and an image, with and without a
\* query, from a visitor, a new user and a user with a username.
Pathnames ==
  { <<"/">>, <<"/", "h", "o", "m", "e">>,
    <<"/", "e", "x", "p", "l", "o", "r", "e">>,
    <<"/", "o", "n", "b", "o", "a", "r", "d", "i", "n", "g">>,
    <<"/", "u", "/", "b", "o", "b">>,
    <<"/", "a", "p", "i", "/", "s", "a", "v", "e">>,
    <<"/", "l", "o", "g", "o", ".", "p", "n", "g">> }

Searches == { <<>>, <<"?", "q", "=", "1">>, <<"?", "t", "a", "g", "=", "x">> }

Tokens ==
  { NoToken,
    [present |-> TRUE, isString |-> FALSE, username |-> <<>>],
    [present |-> TRUE, isString |-> TRUE, username |-> <<>>],
    [present |-> TRUE, isString |-> TRUE, username |-> <<" ">>],
    [present |-> TRUE, isString |-> TRUE, username |-> <<"b", "o", "b">>] }

InitMiddleware ==
  /\ HookIdle
  /\ DeckInit /\ ExploreIdle /\ MiddlewareIdle /\ SaveIdle /\ PlacesIdle
  /\ PageIdle /\ VisibilityIdle

\* A request arrives: the middleware answers it when the matcher matches its
\* pathname, and it goes on to its route when not.
HandleRequest ==
  /\ \E pathname \in Pathnames, search \in Searches, token \in Tokens :
       /\ request' = [pathname |-> pathname, search |-> search, token |-> token]
       /\ response' = IF Matches(pathname) THEN Middleware(request')
                      ELSE PassThrough
  /\ UNCHANGED <<hookVars, deckVars, exploreVars, saveVars, placesVars,
                 pageVars, historyVars,
    swipeVars, visibilityVars>>

SpecMiddleware == InitMiddleware /\ [][HandleRequest]_vars

\* ------------------------------------------------------------- /api/save
\* The handler of /api/save, one process per request.  saveRows counts the
\* rows of Save with the (userId, spotId) of the user and the spot at hand,
\* a pair the store keeps unique.  prisma.save.upsert reads the row and then
\* writes; a store that does both at once takes the two steps together.
SaveRequests == 1..NumSaveRequests

\* What a request carries: its method, a session with a user id or none,
\* and as spotId nothing, the id of the stored spot or an id of no spot.
SaveInputs ==
  [method : {"POST", "GET"}, user : BOOLEAN,
   spotId : {"none", "spot", "unknown"}]

NoSaveInput == [method |-> "none", user |-> FALSE, spotId |-> "none"]

\* A request not yet received.
NewSaveRequest ==
  [pc |-> "new", input |-> NoSaveInput, found |-> FALSE, status |-> 0,
   error |-> "none"]

\* Mutant: the catch block answers every error with 500.
SaveErrorStatus_AllFail(code) == 500

\* The catch block: the status it answers an error with.
SaveErrorStatus(code) == IF code = "P2002" THEN 200 ELSE 500

\* The handler up to the upsert: the checks that answer early.
SaveEarlyStatus(input) ==
  IF input.method # "POST" THEN 405
  ELSE IF ~input.user THEN 401
  ELSE IF input.spotId = "none" THEN 400
  ELSE IF input.spotId # "spot" THEN 404
  ELSE 0

SaveReceive(r) ==
  /\ saveReqs[r].pc = "new"
  /\ \E input \in SaveInputs :
       LET early == SaveEarlyStatus(input)
       IN  saveReqs' = [saveReqs EXCEPT ![r] =
             [@ EXCEPT !.input = input,
                       !.pc = IF early = 0 THEN "upsert" ELSE "done",
                       !.status = early]]
  /\ UNCHANGED saveRows

\* upsert, first half: the row is looked up by userId_spotId.
SaveUpsertRead(r) ==
  /\ saveReqs[r].pc = "upsert"
  /\ saveReqs' = [saveReqs EXCEPT ![r] =
       [@ EXCEPT !.found = (saveRows > 0), !.pc = "write"]]
  /\ UNCHANGED saveRows

\* upsert, second half: update {} when the row was found, create when not;
\* the create of a pair that is stored by now fails with P2002.
SaveUpsertWrite(r) ==
  /\ saveReqs[r].pc = "write"
  /\ IF saveReqs[r].found
       THEN /\ saveReqs' = [saveReqs EXCEPT ![r] =
                 [@ EXCEPT !.pc = "done", !.status = 200]]
            /\ UNCHANGED saveRows
       ELSE IF saveRows > 0
         THEN /\ saveReqs' = [saveReqs EXCEPT ![r] =
                   [@ EXCEPT !.pc = "done", !.error = "P2002",
                             !.status = SaveErrorStatus("P2002")]]
              /\ UNCHANGED saveRows
         ELSE /\ saveRows' = saveRows + 1
              /\ saveReqs' = [saveReqs EXCEPT ![r] =
                   [@ EXCEPT !.pc = "done", !.status = 200]]

InitSave ==
  /\ HookIdle
  /\ DeckInit /\ ExploreIdle /\ MiddlewareIdle /\ PlacesIdle /\ PageIdle /\ VisibilityIdle
  /\ saveReqs = [r \in SaveRequests |-> NewSaveRequest]
  /\ saveRows = 0

restOfSave ==
  <<hookVars, deckVars, exploreVars, middlewareVars, placesVars, pageVars,
    historyVars,
    swipeVars, visibilityVars>>

NextSave ==
  \/ \E r \in SaveRequests : SaveReceive(r) /\ UNCHANGED restOfSave
  \/ \E r \in SaveRequests : SaveUpsertRead(r) /\ UNCHANGED restOfSave
  \/ \E r \in SaveRequests : SaveUpsertWrite(r) /\ UNCHANGED restOfSave

SpecSave == InitSave /\ [][NextSave]_vars

\* ----------------------------------------------------------- /api/places
\* The handler of POST /api/places, one process per request.  spotSlugs holds
\* the slug of every stored spot; the store keeps slugs unique.
PlaceRequests == 1..NumPlaceRequests

\* toLowerCase, for the characters of the titles below (none of them has
\* an accent for normalize("NFKD") to strip).
Fold(c) == IF c = "A" THEN "a" ELSE c

\* [a-z0-9], for the characters of the titles below.
IsSlugChar(c) == c \in {"a", "2"}

\* replace(/[^a-z0-9]+/g, "-"): each run of other characters becomes one "-".
RECURSIVE Dashed(_, _)
Dashed(str, inRun) ==
  IF str = <<>> THEN <<>>
  ELSE IF IsSlugChar(Head(str)) THEN <<Head(str)>> \o Dashed(Tail(str), FALSE)
  ELSE IF inRun THEN Dashed(Tail(str), TRUE)
  ELSE <<"-">> \o Dashed(Tail(str), TRUE)

\* replace(/(^-|-$)/g, "")
StripDashes(str) ==
  LET head == IF str # <<>> /\ Head(str) = "-" THEN Tail(str) ELSE str
  IN  IF head # <<>> /\ head[Len(head)] = "-"
        THEN SubSeq(head, 1, Len(head) - 1) ELSE head

SlugLength == 60

toSlug(input) ==
  SliceTo(StripDashes(Dashed([k \in 1..Len(input) |-> Fold(input[k])], FALSE)),
          SlugLength)

\* The decimal digits of a number, `${i}`.
RECURSIVE Decimal(_)
Decimal(n) ==
  LET digit == <<"0", "1", "2", "3", "4", "5", "6", "7", "8", "9">>[(n % 10) + 1]
  IN  IF n < 10 THEN <<digit>> ELSE Decimal(n \div 10) \o <<digit>>

\* let slug = base || "spot"
FirstSlug(base) == IF base = <<>> THEN <<"s", "p", "o", "t">> ELSE base

\* `${base}-${i}`
NextSlug(base, i) == base \o <<"-">> \o Decimal(i)

\* The titles of the requests: the same title twice, titles whose slugs meet
\* (in case, or with a counter), a title with no letter, and no title.
Titles ==
  { <<"a">>, <<"A">>, <<"a", "-", "2">>, <<"!">>, <<>> }

\* A request not yet received.
NewPlaceRequest ==
  [pc |-> "new", title |-> <<>>, base |-> <<>>, slug |-> <<>>, i |-> 2,
   status |-> 0, stored |-> 0]

\* Mutant: the catch block answers every error with 500.
PlaceErrorStatus_AllFail(code) == 500

\* The catch block: the status it answers an error with.
PlaceErrorStatus(code) == IF code = "P2002" THEN 409 ELSE 500

\* The checks that answer before the slug is made: the method, the session,
\* the title, the coordinates and the image.
PlaceEarlyStatus(method, user, title, coordinates, image) ==
  IF method # "POST" THEN 405
  ELSE IF ~user THEN 401
  ELSE IF title = <<>> THEN 400
  ELSE IF coordinates # "ok" THEN 400
  ELSE IF ~image THEN 400
  ELSE 0

PlaceReceive(r) ==
  /\ placeReqs[r].pc = "new"
  /\ \E method \in {"POST", "GET"}, user \in BOOLEAN, title \in Titles,
        coordinates \in {"ok", "missing", "out of bounds"}, image \in BOOLEAN :
       LET early == PlaceEarlyStatus(method, user, title, coordinates, image)
           base == toSlug(title)
       IN  placeReqs' = [placeReqs EXCEPT ![r] =
             IF early = 0
               THEN [@ EXCEPT !.pc = "probe", !.title = title, !.base = base,
                              !.slug = FirstSlug(base)]
               ELSE [@ EXCEPT !.pc = "done", !.status = early]]
  /\ UNCHANGED spotSlugs

\* One turn of uniqueSlug's loop: prisma.spot.findUnique({ where: { slug } }).
PlaceProbe(r) ==
  /\ placeReqs[r].pc = "probe"
  /\ placeReqs' = [placeReqs EXCEPT ![r] =
       IF placeReqs[r].slug \notin Range(spotSlugs)
         THEN [@ EXCEPT !.pc = "create"]
         ELSE [@ EXCEPT !.slug = NextSlug(placeReqs[r].base, placeReqs[r].i),
                        !.i = @ + 1]]
  /\ UNCHANGED spotSlugs

\* prisma.spot.create: it fails with P2002 when the slug is stored by now.
PlaceCreate(r) ==
  /\ placeReqs[r].pc = "create"
  /\ IF placeReqs[r].slug \in Range(spotSlugs)
       THEN /\ placeReqs' = [placeReqs EXCEPT ![r] =
                 [@ EXCEPT !.pc = "done", !.status = PlaceErrorStatus("P2002")]]
            /\ UNCHANGED spotSlugs
       ELSE /\ spotSlugs' = Append(spotSlugs, placeReqs[r].slug)
            /\ placeReqs' = [placeReqs EXCEPT ![r] =
                 [@ EXCEPT !.pc = "done", !.status = 201,
                           !.stored = Len(spotSlugs) + 1]]

InitPlaces ==
  /\ HookIdle
  /\ DeckInit /\ ExploreIdle /\ MiddlewareIdle /\ SaveIdle /\ PageIdle /\ VisibilityIdle
  /\ placeReqs = [r \in PlaceRequests |-> NewPlaceRequest]
  /\ spotSlugs = <<>>

restOfPlaces ==
  <<hookVars, deckVars, exploreVars, middlewareVars, saveVars, pageVars,
    historyVars,
    swipeVars, visibilityVars>>

NextPlaces ==
  \/ \E r \in PlaceRequests : PlaceReceive(r) /\ UNCHANGED restOfPlaces
  \/ \E r \in PlaceRequests : PlaceProbe(r) /\ UNCHANGED restOfPlaces
  \/ \E r \in PlaceRequests : PlaceCreate(r) /\ UNCHANGED restOfPlaces

SpecPlaces == InitPlaces /\ [][NextPlaces]_vars

TypeOK ==
  /\ batchSize \in 1..MaxBatchSize
  /\ maxPoolSize \in Nat
  /\ poolRef \in Seq(Ids)
  /\ seenIdsRef \subseteq Ids
  /\ displayedSpots \in Seq(Ids)
  /\ rafPending \in 0..1
  /\ clearTimers \in 0..1

\* -------------------------------------------------------- the explore page
\* DiscoverPage (pages/explore.tsx) and the /api/explore it asks.  A state
\* variable holds the value after the updates queued so far; a render reads
\* the variables, and the functions it creates (loadMore) keep what it read.
\* A render's effects run with it, before the next event.
MaxPins == 2         \* the spot rows of the listing are 1..MaxPins
PageSize == 1        \* rows asked for at a time (the page asks for 48)
MaxInFlight == 2     \* loadMore is called while fewer requests are in flight
MaxPinsLen == 2      \* a response is appended while the pin list stays this short

TagCity == <<"c", "i", "t", "y">>

TagNature == <<"n", "a", "t", "u", "r", "e">>

\* The rows of the Spot table: their titles and tags (createdAt is the same
\* for all, so the listing is by id, descending).
PinTitle(id) == IF id % 2 = 1 THEN <<"a">> ELSE <<"b">>

PinTags(id) == IF 2 * id <= MaxPins + 1 THEN {TagCity} ELSE {TagNature}

\* The rows the handler's `where` selects for the parameters q and tag.
Where(q, tag) ==
  {id \in 1..MaxPins :
     /\ q = <<>> \/ Includes(PinTitle(id), q) \/ q \in PinTags(id)
     /\ tag = <<>> \/ tag \in PinTags(id)}

\* The search strings and the tag pills the user can choose.
Queries == {<<>>, <<"a">>}

Tags == {TagAll, TagCity}

\* What the functions created by a render of the current state read.
Closure ==
  [mounted |-> TRUE, cursor |-> pageCursor, query |-> pageQuery,
   activeTag |-> activeTag, isLoading |-> isLoading, hasMore |-> pageHasMore]

\* The URLSearchParams loadMore builds.
LoadMoreRequest(closure, reset) ==
  [reset |-> reset,
   cursor |-> IF reset THEN NoCursor ELSE closure.cursor,
   q |-> closure.query,
   tag |-> IF closure.activeTag = TagAll THEN <<>> ELSE closure.activeTag]

\* The handler's answer to a request of loadMore.
ExploreData(req) ==
  ExploreHandler([id \in Where(req.q, req.tag) |-> 1], PageSize, req.cursor)

\* if (isLoading || (!hasMore && !reset)) return;
LoadMoreReturns(closure, reset) ==
  closure.isLoading \/ (~closure.hasMore /\ ~reset)

\* loadMore(reset) of a render, up to its await.
LoadMore(closure, reset) ==
  IF LoadMoreReturns(closure, reset)
    THEN UNCHANGED <<isLoading, inFlight>>
    ELSE /\ isLoading' = TRUE
         /\ inFlight' = Append(inFlight, LoadMoreRequest(closure, reset))

\* The dependencies [query, activeTag] differ from the last render's.
FilterChanged ==
  ~rendered.mounted \/ rendered.query # pageQuery
                    \/ rendered.activeTag # activeTag

\* The dependencies [cursor, hasMore, isLoading] differ from the last render's.
ObserverChanged ==
  \/ ~rendered.mounted
  \/ <<rendered.cursor, rendered.hasMore, rendered.isLoading>>
       # <<pageCursor, pageHasMore, isLoading>>

restOfPage == <<hookVars, deckVars, exploreVars, middlewareVars, saveVars,
                placesVars, historyVars,
    swipeVars, visibilityVars>>

\* A render after a state change, with its effects: the filter effect, then
\* the effect that registers the IntersectionObserver.
PageRender ==
  /\ rendered # Closure
  /\ FilterChanged => Len(inFlight) < MaxInFlight
  /\ rendered' = Closure
  /\ IF FilterChanged
       THEN /\ pins' = <<>>
            /\ pageCursor' = NoCursor
            /\ pageHasMore' = TRUE
            /\ LoadMore(Closure, TRUE)
       ELSE UNCHANGED <<pins, pageCursor, pageHasMore, isLoading, inFlight>>
  /\ observer' = IF ObserverChanged THEN Closure ELSE observer
  /\ UNCHANGED <<pageQuery, activeTag, restOfPage>>

\* The observer reports the sentinel as intersecting: loadMore() of the
\* render that registered it.
ObserverCallback ==
  /\ observer.mounted
  /\ ~LoadMoreReturns(observer, FALSE)
  /\ Len(inFlight) < MaxInFlight
  /\ LoadMore(observer, FALSE)
  /\ UNCHANGED <<pins, pageCursor, pageQuery, activeTag, pageHasMore,
                 rendered, observer, restOfPage>>

\* array with its k-th item removed.
RemoveAt(array, k) == SubSeq(array, 1, k - 1) \o SubSeq(array, k + 1, Len(array))

\* What setPins leaves in the pin list.
PinsAfter(prev, reset, items) == IF reset THEN items ELSE prev \o items

\* fetch answers the k-th request in flight with res.ok: the loadMore that
\* made it goes on after its await.
RespondedTo(k) ==
  LET req == inFlight[k]
      data == ExploreData(req)
  IN  /\ Len(PinsAfter(pins, req.reset, data.items)) <= MaxPinsLen
      /\ pins' = PinsAfter(pins, req.reset, data.items)
      /\ pageCursor' = data.nextCursor
      /\ pageHasMore' = (data.nextCursor # NoCursor)
      /\ isLoading' = FALSE
      /\ inFlight' = RemoveAt(inFlight, k)
      /\ UNCHANGED <<pageQuery, activeTag, rendered, observer, restOfPage>>

\* The requests are answered in any order.
Responded == \E k \in 1..Len(inFlight) : RespondedTo(k)

\* fetch answers a request with an error status (the handler's 500).
Failed ==
  \E k \in 1..Len(inFlight) :
    /\ isLoading' = FALSE
    /\ inFlight' = RemoveAt(inFlight, k)
    /\ UNCHANGED <<pins, pageCursor, pageQuery, activeTag, pageHasMore,
                   rendered, observer, restOfPage>>

\* onChange of the search input: setQuery(e.target.value).
SetQuery ==
  /\ rendered.mounted
  /\ \E q \in Queries \ {pageQuery} : pageQuery' = q
  /\ UNCHANGED <<pins, pageCursor, activeTag, isLoading, pageHasMore,
                 rendered, observer, inFlight, restOfPage>>

\* onClick of a tag pill: setActiveTag(t).
SetActiveTag ==
  /\ rendered.mounted
  /\ \E t \in Tags \ {activeTag} : activeTag' = t
  /\ UNCHANGED <<pins, pageCursor, pageQuery, isLoading, pageHasMore,
                 rendered, observer, inFlight, restOfPage>>

InitPage ==
  /\ HookIdle
  /\ DeckInit /\ ExploreIdle /\ MiddlewareIdle /\ SaveIdle /\ PlacesIdle
  /\ PageIdle /\ VisibilityIdle

NextPage ==
  \/ PageRender
  \/ ObserverCallback
  \/ Responded
  \/ Failed
  \/ SetQuery
  \/ SetActiveTag

SpecPage == InitPage /\ [][NextPage]_vars

\* ------------------------------------------------------------- SwipeDeck
\* SwipeDeck (components/SwipeDeck) over a `spots` prop of NumCards items.  A
\* spot is its position in the prop.  A key press or a drag release is a
\* discrete event: React renders before the next one, so the keyboard handler
\* and the top card are those of the current index.  The card of a committed
\* spot stays mounted, under AnimatePresence, until its exit animation ends.
NumCards == 4        \* the `spots` prop holds the positions 0..NumCards - 1

Positions == 0..(NumCards - 1)

Directions == {"left", "right"}

\* commit(dir, spot), and the render that follows setIndex: the card of the
\* new top is mounted; with no top the deck renders nothing (line 171).
CommitSpot(dir, spot) ==
  /\ index' = index + 1
  /\ commits' = Append(commits,
       [spot |-> spot, index |-> index,
        handler |-> IF dir = "right" THEN "onSave" ELSE "onSkip"])
  /\ mountedCards' = IF index + 1 < NumCards
                       THEN mountedCards \cup {index + 1}
                       ELSE {}

restOfSwipe == <<hookVars, effectsDue, mutationPending, serverVars,
                 historyVars>>

\* keydown of ArrowRight or ArrowLeft: fling(dir), for the top card if any.
KeyDown ==
  /\ index < NumCards
  /\ \E dir \in Directions : CommitSpot(dir, index)
  /\ UNCHANGED restOfSwipe

\* onDragEnd of a mounted SwipeCard, released past the threshold:
\* onCommit(dir, spot) with the card's own spot.
DragEnd ==
  /\ \E spot \in mountedCards, dir \in Directions : CommitSpot(dir, spot)
  /\ UNCHANGED restOfSwipe

\* The exit animation of a committed card ends: AnimatePresence unmounts it.
ExitComplete ==
  /\ \E spot \in mountedCards \ {index} : mountedCards' = mountedCards \ {spot}
  /\ UNCHANGED <<index, commits, restOfSwipe>>

\* The deck after its first render: the card of spots[0] is mounted.
InitSwipe ==
  /\ HookIdle
  /\ index = 0
  /\ effectsDue = FALSE
  /\ mutationPending = FALSE
  /\ mountedCards = {0}
  /\ commits = <<>>
  /\ ExploreIdle /\ ServersIdle

NextSwipe ==
  \/ KeyDown
  \/ DragEnd
  \/ ExitComplete

SpecSwipe == InitSwipe /\ [][NextSwipe]_vars

\* ------------------------------------------ /api/collections/[id]/visibility
\* The handler of PATCH /api/collections/[id]/visibility, one process per
\* request.  The body is the parsed JSON object; its isPublic is "true" or
\* "false" (a boolean) or "yes" (a string, as any value that is no boolean).
NumVisRequests == 2  \* visibility requests in flight together

VisRequests == 1..NumVisRequests

\* The stored collections and their owners; "c9" is the id of no collection.
Owners == [c1 |-> "u1"]

CollectionTables ==
  [DOMAIN Owners -> BOOLEAN]

\* What a request carries: its method, the session's user id or none, the id
\* of the route and the isPublic of the body.
VisInputs ==
  [method : {"PATCH", "GET"}, user : {"none", "u1", "u2"},
   id : {"none", "c1", "c9"},
   isPublic : {"true", "false", "yes"}]

NoVisInput ==
  [method |-> "none", user |-> "none", id |-> "none", isPublic |-> "yes"]

\* A request not yet received.
NewVisRequest == [pc |-> "new", input |-> NoVisInput, status |-> 0]

\* typeof isPublic === "boolean"
IsBoolean(value) == value \in {"true", "false"}

\* The checks before the collection is read: the status answered, 0 if none.
VisEarlyStatus(input) ==
  IF input.method # "PATCH" THEN 405
  ELSE IF input.user = "none" THEN 401
  ELSE IF input.id = "none" THEN 400
  ELSE IF ~IsBoolean(input.isPublic) THEN 400
  ELSE 0

\* Mutant: the owner is not compared with the session's user.
VisFoundStatus_NoOwnerCheck(table, input) ==
  IF input.id \notin DOMAIN table THEN 404
  ELSE 0

\* The checks on the collection read by findUnique: 404, 403, or 0 if none.
VisFoundStatus(table, input) ==
  IF input.id \notin DOMAIN table THEN 404
  ELSE IF Owners[input.id] # input.user THEN 403
  ELSE 0

\* The handler up to prisma.collection.findUnique.
VisReceive(r) ==
  /\ visReqs[r].pc = "new"
  /\ \E input \in VisInputs :
       LET early == VisEarlyStatus(input)
       IN  visReqs' = [visReqs EXCEPT ![r] =
             [pc |-> IF early = 0 THEN "find" ELSE "done",
              input |-> input, status |-> early]]
  /\ UNCHANGED collections

\* findUnique and the checks of its result.
VisFind(r) ==
  /\ visReqs[r].pc = "find"
  /\ LET found == VisFoundStatus(collections, visReqs[r].input)
     IN  visReqs' = [visReqs EXCEPT ![r] =
           [@ EXCEPT !.pc = IF found = 0 THEN "update" ELSE "done",
                     !.status = found]]
  /\ UNCHANGED collections

\* prisma.collection.update({ where: { id }, data: { isPublic } }), and 200.
VisUpdate(r) ==
  /\ visReqs[r].pc = "update"
  /\ collections' = [collections EXCEPT ![visReqs[r].input.id] =
                       (visReqs[r].input.isPublic = "true")]
  /\ visReqs' = [visReqs EXCEPT ![r] = [@ EXCEPT !.pc = "done", !.status = 200]]

InitVisibility ==
  /\ HookIdle
  /\ DeckInit /\ ExploreIdle /\ MiddlewareIdle /\ SaveIdle /\ PlacesIdle
  /\ PageIdle
  /\ visReqs = [r \in VisRequests |-> NewVisRequest]
  /\ collections \in CollectionTables

restOfVisibility ==
  <<hookVars, deckVars, exploreVars, middlewareVars, saveVars, placesVars,
    pageVars, historyVars, swipeVars>>

NextVisibility ==
  \/ \E r \in VisRequests : VisReceive(r) /\ UNCHANGED restOfVisibility
  \/ \E r \in VisRequests : VisFind(r) /\ UNCHANGED restOfVisibility
  \/ \E r \in VisRequests : VisUpdate(r) /\ UNCHANGED restOfVisibility

SpecVisibility == InitVisibility /\ [][NextVisibility]_vars

\* ------------------------------------------------------------ the claims
\* The last n items of s (n <= Len(s)).
LastN(s, n) == [i \in 1..n |-> s[Len(s) - n + i]]

IsPrefix(a, b) == Len(a) <= Len(b) /\ \A i \in 1..Len(a) : b[i] = a[i]

\* How many items of s have the identifier id.
Count(s, id) == Cardinality({i \in 1..Len(s) : s[i] = id})

\* a uses each item of b at most once.
UsesEachAtMostOnce(a, b) == \A id \in Range(a) : Count(a, id) <= Count(b, id)

\* s without its items whose identifier is in R, the order kept.
RECURSIVE Without(_, _)
Without(s, R) ==
  IF s = <<>> THEN <<>>
  ELSE (IF Head(s) \in R THEN <<>> ELSE <<Head(s)>>) \o Without(Tail(s), R)

\* The ids of the last batchSize items of the displayed list.
RecentIdsOf(list) ==
  {list[i] : i \in {k \in 1..Len(list) : k > Len(list) - batchSize}}

\* C1 (P2, bounded pool): after every ingestion, and in every other reachable
\* state, the pool holds at most maxPoolSize items, for every maxPoolSize >= 0.
C1_BoundedPool == Len(poolRef) <= maxPoolSize

\* An ingestion into a window of at least one item has filled the window, and
\* an item seen earlier is no longer in the pool: it has been evicted.
C1_Witness ==
  /\ lastOp = "ingest"
  /\ absorbed # <<>>
  /\ maxPoolSize >= 1
  /\ Len(poolRef) = maxPoolSize
  /\ seenIdsRef \ Range(poolRef) # {}

\* C2 (P1, no duplicate ingestion): the items an ingestion leaves newly in the
\* pool (the tail of the pool that comes from the list it absorbed) carry no
\* identifier that an earlier ingestion accepted, i.e. none that was in the
\* Seen-Set before, whether or not that item is still in the pool.
C2_NoDuplicateIngestion ==
  [][lastOp' = "ingest" =>
       LET added == Min(Len(absorbed'), Len(poolRef'))
       IN  \A i \in 1..Len(poolRef') :
             i > Len(poolRef') - added => poolRef'[i] \notin seenIdsRef]_vars

\* An ingestion into a window of at least one item was handed an identifier
\* that had been accepted and evicted: it did not enter the pool again.
C2_Witness ==
  /\ lastOp = "ingest"
  /\ maxPoolSize >= 1
  /\ \E id \in rejected : id \notin Range(poolRef)

\* C3 (P3, append-only displayed list): in every step, of getNextBatch, of a
\* batch production or of an ingestion, the displayed list before the step is
\* a prefix of the displayed list after it.
C3_AppendOnly == [][IsPrefix(displayedSpots, displayedSpots')]_vars

\* A batch has been appended behind the initial batch.
C3_Witness ==
  /\ lastOp = "animationFrame"
  /\ nextBatch # <<>>
  /\ Len(displayedSpots) >= 3

C5_ShuffleReadOnly ==
  [][lastOp' \in {"getNextBatch", "animationFrame", "clearBusy",
                  "preloadEffect", "preloadTimer"} =>
       (poolRef' = poolRef /\ seenIdsRef' = seenIdsRef
          /\ initializedRef' = initializedRef)]_vars

\* A production sliced a batch that starts with another item than the pool.
C5_Witness ==
  /\ lastOp = "animationFrame"
  /\ Len(poolRef) >= 2
  /\ nextBatch # <<>>
  /\ nextBatch[1] # poolRef[1]

\* C6 (FIFO sliding window): an ingestion that absorbs newItems into the pool
\* P leaves the last min(len(P) + len(newItems), maxPoolSize) items of
\* P followed by newItems, in that order.
C6_SlidingWindow ==
  [][lastOp' = "ingest" =>
       poolRef' = LastN(poolRef \o absorbed',
                        Min(Len(poolRef) + Len(absorbed'), maxPoolSize))]_vars

\* One call absorbed more items than the window holds, the first unlike the
\* last: the pool is the most recent maxPoolSize of them.
C6_Witness ==
  /\ lastOp = "ingest"
  /\ maxPoolSize >= 1
  /\ Len(absorbed) > maxPoolSize
  /\ absorbed[1] # absorbed[Len(absorbed)]
  /\ poolRef = LastN(absorbed, maxPoolSize)

C8_InitialLoad ==
  [][/\ (~initializedRef /\ initializedRef') =>
          /\ lastOp' = "ingest"
          /\ displayedSpots = <<>>
          /\ Len(displayedSpots') = Min(3 * batchSize, Len(poolRef'))
          /\ UsesEachAtMostOnce(displayedSpots', poolRef')
     /\ (lastOp' = "ingest" /\ ~initializedRef /\ absorbed' # <<>>
           /\ maxPoolSize >= 1) => initializedRef']_vars

\* The first delivery left more than 3 * batchSize items in the pool, and
\* exactly 3 * batchSize of them are displayed.
C8_Witness ==
  /\ lastOp = "ingest"
  /\ initializedRef
  /\ Len(poolRef) > 3 * batchSize
  /\ Len(displayedSpots) = 3 * batchSize
  /\ Cardinality(Range(displayedSpots)) >= 2

\* C9 (empty-pool no-op): getNextBatch on an empty pool invokes the fetch
\* callback once and changes neither the displayed list, the pool, the
\* Seen-Set nor the busy flag, and schedules no batch production.
C9_EmptyPoolNoOp ==
  [][(lastOp' = "getNextBatch" /\ Len(poolRef) = 0) =>
       /\ fetchCalls' = 1
       /\ displayedSpots' = displayedSpots
       /\ poolRef' = poolRef
       /\ seenIdsRef' = seenIdsRef
       /\ isReshufflingRef' = isReshufflingRef
       /\ rafPending' = rafPending
       /\ clearTimers' = clearTimers]_vars

\* getNextBatch has run on an empty pool and called the fetch callback.
C9_Witness ==
  /\ lastOp = "getNextBatch"
  /\ Len(poolRef) = 0
  /\ displayedSpots = <<>>
  /\ fetchCalls = 1
  /\ ~isReshufflingRef
  /\ rafPending = 0

\* C10 (low-water prefetch, retried on demand): every getNextBatch invocation
\* made while len(pool) < batchSize invokes the fetch callback at least once,
\* with the busy flag set or clear.
C10_LowWaterFetch ==
  [][(lastOp' = "getNextBatch" /\ Len(poolRef) < batchSize) =>
       fetchCalls' >= 1]_vars

\* getNextBatch has run on a low, non-empty pool while the busy flag was set
\* and no production was pending: it scheduled nothing and still fetched.
C10_Witness ==
  /\ lastOp = "getNextBatch"
  /\ Len(poolRef) > 0
  /\ Len(poolRef) < batchSize
  /\ isReshufflingRef
  /\ rafPending = 0
  /\ fetchCalls = 1

\* C11 (second low-water-mark check): each batch production invokes the fetch
\* callback once when the pool, as it is when the batch is produced, holds
\* fewer than 2 * batchSize items, and does not invoke it otherwise.
C11_SecondLowWater ==
  [][lastOp' = "animationFrame" =>
       fetchCalls' = (IF Len(poolRef) < 2 * batchSize THEN 1 ELSE 0)]_vars

\* A batch was produced from a pool that the first check (batchSize) finds
\* full enough and the second check (2 * batchSize) finds low: it fetched.
C11_Witness ==
  /\ lastOp = "animationFrame"
  /\ nextBatch # <<>>
  /\ Len(poolRef) >= batchSize
  /\ Len(poolRef) < 2 * batchSize
  /\ fetchCalls = 1

\* C12 (concurrency guard): a call of preloadNextBatch made while the busy
\* flag is set, by getNextBatch or by the proactive timer, appends nothing and
\* schedules no production; at most one production or flag release is pending
\* at any time, and only while the flag is set.
C12_ConcurrencyGuard ==
  [][/\ rafPending' + clearTimers' <= 1
     /\ (rafPending' + clearTimers' = 1) <=> isReshufflingRef'
     /\ (lastOp' \in {"getNextBatch", "preloadTimer"} /\ isReshufflingRef) =>
          /\ displayedSpots' = displayedSpots
          /\ rafPending' = rafPending
          /\ clearTimers' = clearTimers
          /\ isReshufflingRef']_vars

\* The proactive timer fired on a non-empty pool after the batch of another
\* call was appended and before the flag was released: nothing is scheduled.
C12_Witness ==
  /\ lastOp = "preloadTimer"
  /\ Len(poolRef) > 0
  /\ isReshufflingRef
  /\ rafPending = 0
  /\ clearTimers = 1

\* C13 (busy-flag release): the busy flag is cleared only by the 50 ms timer,
\* which the animation frame sets after it has appended its batch, so no
\* production is pending when the flag is cleared; and under fair animation
\* frames and timers a set flag is eventually cleared.
C13_BusyRelease ==
  /\ [][(isReshufflingRef /\ ~isReshufflingRef') =>
          /\ lastOp' = "clearBusy"
          /\ rafPending = 0
          /\ clearTimers = 1]_vars
  /\ isReshufflingRef ~> ~isReshufflingRef

\* The timer has cleared the flag after a batch was appended behind the
\* initial batch.
C13_Witness ==
  /\ lastOp = "clearBusy"
  /\ ~isReshufflingRef
  /\ clearTimers = 0
  /\ Len(displayedSpots) >= 3

\* C14 (idempotent re-delivery): once the initial batch has been produced, a
\* render whose `spots` prop is empty or carries only identifiers of the
\* Seen-Set leaves the Pool, the Seen-Set and the Displayed List as they are.
C14_IdempotentRedelivery ==
  [][\A list \in SpotLists :
       (/\ initializedRef
        /\ Range(list) \subseteq seenIdsRef
        /\ Ingest(list)) =>
         UNCHANGED <<poolRef, seenIdsRef, displayedSpots>>]_vars

\* After the initial load, a non-empty list of seen identifiers, one of them
\* evicted from the pool, was delivered, and nothing of it was absorbed.
C14_Witness ==
  /\ lastOp = "ingest"
  /\ initializedRef
  /\ absorbed = <<>>
  /\ rejected # {}
  /\ Len(poolRef) > 0

\* C15 (infinite swiping): whenever the deck is exhausted, its index at or
\* past the end of the displayed list, while the pool is not empty, a batch is
\* eventually appended, so that a top card exists again (stated for the
\* displayed lists that leave room for a batch within MaxDisplayed).
C15_InfiniteSwiping ==
  (/\ Len(displayedSpots) > 0
   /\ index >= Len(displayedSpots)
   /\ Len(poolRef) > 0
   /\ RoomForBatch) ~> (index < Len(displayedSpots))

\* C16 (proactive preload): whenever the displayed list is not empty and
\* shorter than 2 * batchSize while the pool is not empty, batches are
\* eventually appended until it holds 2 * batchSize items (or, in the model,
\* until it leaves no room for a batch within MaxDisplayed).
C16_ProactivePreload ==
  (/\ Len(displayedSpots) > 0
   /\ Len(displayedSpots) < 2 * batchSize
   /\ Len(poolRef) > 0) ~>
     (Len(displayedSpots) >= 2 * batchSize \/ ~RoomForBatch)

\* Proper prefix.
IsProperPrefix(a, b) == IsPrefix(a, b) /\ Len(a) < Len(b)

\* C17 (explore listing pagination): for a fixed set of matching spots and
\* any limit, the client that starts without a cursor and follows nextCursor
\* has received, when nextCursor is null, every matching spot once in
\* (createdAt desc, id desc) order; and nextCursor is null exactly after the
\* page that leaves no item behind, so while it is not null the client holds
\* a proper prefix of that order.
C17_Pagination ==
  /\ exploreState = "end" => received = Ordered(spotTable)
  /\ exploreState = "more" => IsProperPrefix(received, Ordered(spotTable))
  /\ exploreState = "start" => received = <<>>

\* The same for the limits that are absent, not a number, or positive.
C17_FromPositiveLimits == limitQuery >= 0 => C17_Pagination

\* Three pages of one row each were followed to the end.
C17_Witness ==
  /\ exploreState = "end"
  /\ limitQuery = 1
  /\ Len(received) = 3
  /\ \E i, j \in DOMAIN spotTable : i # j /\ spotTable[i] = spotTable[j]

\* The home page, which the claim leaves open to visitors: / and /home.
IsHomePage(pathname) ==
  pathname = <<"/">> \/ pathname = <<"/", "h", "o", "m", "e">>

\* C18 (page protection by middleware): a request without an auth token to a
\* pathname the matcher matches, other than the home page, is answered by a
\* redirect to /home whose `next` parameter is the pathname with its query,
\* and is not passed through.
C18_PageProtection ==
  (/\ response.kind # "none"
   /\ ~request.token.present
   /\ Matches(request.pathname)
   /\ ~IsHomePage(request.pathname)) =>
     response = Redirect(<<"/", "h", "o", "m", "e">>,
                         request.pathname \o request.search)

\* A POST of the signed-in user for the stored spot.
IsSaveOfSpot(input) ==
  input.method = "POST" /\ input.user /\ input.spotId = "spot"

\* C19 (save is idempotent): in every interleaving of the requests, every
\* POST /api/save of the user for the stored spot that has been answered was
\* answered 200, and once one of them is answered there is exactly one Save
\* row of the pair; there is never more than one.
C19_SaveIdempotent ==
  /\ saveRows <= 1
  /\ \A r \in DOMAIN saveReqs :
       (saveReqs[r].pc = "done" /\ IsSaveOfSpot(saveReqs[r].input)) =>
         saveReqs[r].status = 200 /\ saveRows = 1

\* All requests were such POSTs and are answered; one of them lost the race
\* of two creates and was answered from the catch block.
C19_Witness ==
  /\ saveReqs # <<>>
  /\ \A r \in DOMAIN saveReqs :
       saveReqs[r].pc = "done" /\ IsSaveOfSpot(saveReqs[r].input)
  /\ \E r \in DOMAIN saveReqs : saveReqs[r].error = "P2002"
  /\ \E r \in DOMAIN saveReqs : saveReqs[r].found

\* C20 (slug uniqueness on spot creation): in every interleaving of the
\* requests no two stored spots share a slug, and every request that passed
\* the checks of its input (it has a slug) and is answered was either
\* answered 201 with its spot stored under its slug, which no other stored
\* spot has, or answered 409 with no spot stored for it.
C20_SlugUniqueness ==
  /\ \A k, m \in 1..Len(spotSlugs) : k # m => spotSlugs[k] # spotSlugs[m]
  /\ \A r \in DOMAIN placeReqs :
       (placeReqs[r].pc = "done" /\ placeReqs[r].slug # <<>>) =>
         \/ /\ placeReqs[r].status = 201
            /\ placeReqs[r].stored \in 1..Len(spotSlugs)
            /\ spotSlugs[placeReqs[r].stored] = placeReqs[r].slug
            /\ \A q \in DOMAIN placeReqs :
                 q # r => placeReqs[q].stored # placeReqs[r].stored
         \/ /\ placeReqs[r].status = 409
            /\ placeReqs[r].stored = 0

\* Three requests carried the title "a": one stored its spot as "a", one as
\* "a-2", and one that had found "a-2" free as well was answered 409.
C20_Witness ==
  /\ placeReqs # <<>>
  /\ \A r \in DOMAIN placeReqs :
       placeReqs[r].pc = "done" /\ placeReqs[r].title = <<"a">>
  /\ \E r \in DOMAIN placeReqs : placeReqs[r].status = 409
  /\ spotSlugs = << <<"a">>, <<"a", "-", "2">> >>
\* C21 (explore page filter change): a render after a change of the search
\* query or of the active tag empties the pin list and issues a first-page
\* request (reset, no cursor) with the new query and tag, whatever is in
\* flight; and when the answer to a first-page request arrives, the pin list
\* is exactly the answer's items.
C21_FilterChange ==
  [][/\ (rendered.mounted /\ FilterChanged /\ PageRender) =>
          /\ pins' = <<>>
          /\ Len(inFlight') = Len(inFlight) + 1
          /\ inFlight'[Len(inFlight')] = LoadMoreRequest(Closure, TRUE)
     /\ \A k \in 1..Len(inFlight) :
          (inFlight[k].reset /\ RespondedTo(k)) =>
             pins' = ExploreData(inFlight[k]).items]_vars

\* C22 (pool holds no duplicates): in every reachable state no two items of
\* the pool carry the same identifier, whatever lists were delivered, a list
\* that names an identifier twice included.
C22_PoolNoDuplicates == \A id \in Ids : Count(poolRef, id) <= 1

\* C23 (fetching stops at the high-water mark): no step makes the pool
\* shorter, and a step taken with at least 2 * batchSize items in the pool
\* makes no call of onFetchMore; so from the first state with that many
\* items on, the hook never asks upstream again.
C23_FetchingStops ==
  [][/\ Len(poolRef') >= Len(poolRef)
     /\ Len(poolRef) >= 2 * batchSize => fetchCalls' = 0]_vars

\* With the pool at the high-water mark and an identifier already evicted,
\* an animation frame has produced a batch and has not asked for more.
C23_Witness ==
  /\ lastOp = "animationFrame"
  /\ Len(poolRef) >= 2 * batchSize
  /\ nextBatch # <<>>
  /\ seenIdsRef \ Range(poolRef) # {}
  /\ fetchCalls = 0

\* C24 (evicted items never come back): the items an animation frame
\* appends to the displayed list carry no identifier that the sliding window
\* has evicted before, and every item of the batch it sliced is in the pool
\* at that moment.
C24_EvictedStayOut ==
  [][lastOp' = "animationFrame" =>
       LET added == SubSeq(displayedSpots', Len(displayedSpots) + 1,
                           Len(displayedSpots'))
       IN  /\ Range(added) \cap evictedIds = {}
           /\ Range(nextBatch') \subseteq Range(poolRef)]_vars

\* C25 (swipe deck position): the k-th commit is for the spot at position
\* k - 1, the position index had when it was made, so that no position is
\* committed twice or passed over; index counts the commits and never
\* exceeds the number of spots.
C25_SwipePosition ==
  /\ index <= NumCards
  /\ index = Len(commits)
  /\ \A k \in 1..Len(commits) :
       commits[k].spot = k - 1 /\ commits[k].index = k - 1

\* C26 (explore page single flight): at most one request of loadMore is in
\* flight at any time, and no item is in the pin list twice.
C26_SingleFlight ==
  /\ Len(inFlight) <= 1
  /\ \A i, j \in 1..Len(pins) : pins[i] = pins[j] => i = j

\* C27 (owner-only visibility change): a PATCH that is answered without 200
\* leaves every collection's isPublic as it was, and is answered 401 when
\* there is no session, 400 when the session is there and isPublic is not a
\* boolean, 404 when the request is well-formed and the id is of no
\* collection, 403 when the collection is another user's; isPublic changes
\* only in the update of a request whose user owns the collection and whose
\* isPublic is a boolean, and only for that collection, to that value.
C27_OwnerOnly ==
  [][/\ \A r \in VisRequests :
          LET input == visReqs'[r].input
              status == visReqs'[r].status
              signedIn == input.user # "none"
              wellFormed == signedIn /\ input.id # "none"
                                     /\ IsBoolean(input.isPublic)
          IN  (/\ visReqs[r].pc # "done" /\ visReqs'[r].pc = "done"
               /\ input.method = "PATCH") =>
                 /\ ~signedIn => status = 401
                 /\ (signedIn /\ ~IsBoolean(input.isPublic)) => status = 400
                 /\ (wellFormed /\ input.id \notin DOMAIN Owners) =>
                      status = 404
                 /\ (/\ wellFormed /\ input.id \in DOMAIN Owners
                     /\ Owners[input.id] # input.user) => status = 403
                 /\ status # 200 => collections' = collections
     /\ collections' # collections =>
          \E r \in VisRequests :
            LET input == visReqs[r].input
            IN  /\ visReqs[r].pc = "update" /\ visReqs'[r].status = 200
                /\ input.id \in DOMAIN Owners
                /\ Owners[input.id] = input.user
                /\ IsBoolean(input.isPublic)
                /\ collections' = [collections EXCEPT ![input.id] =
                                     (input.isPublic = "true")]]_vars

\* Another user's PATCH with a boolean has been answered 403, and the
\* owner's PATCH of the same collection 200, with the owner's value stored.
C27_Witness ==
  \E r, q \in VisRequests :
    /\ visReqs[r].pc = "done" /\ visReqs[r].status = 403
    /\ visReqs[r].input.id = "c1" /\ visReqs[r].input.user = "u2"
    /\ visReqs[r].input.isPublic = "true"
    /\ visReqs[q].pc = "done" /\ visReqs[q].status = 200
    /\ visReqs[q].input.id = "c1" /\ visReqs[q].input.isPublic = "false"
    /\ collections["c1"] = FALSE

====
